---- MODULE Spec2Model ----
(***************************************************************************)
(* PNG reading and writing of png.c: read_png_stream demultiplexes the     *)
(* packed byte rows delivered by libpng into an image_t, write_png_stream  *)
(* multiplexes an image_t into packed byte rows (and a palette table) and  *)
(* hands them to libpng.  libpng itself is the environment: each of its    *)
(* calls that can fail may fail, by returning NULL or by the longjmp that  *)
(* lands on the setjmp of the calling function.                            *)
(***************************************************************************)
EXTENDS Integers, Sequences, FiniteSets, TLC

VARIABLES
  pc,          \* control location of the running call
  img,         \* write_png_stream's argument img (null: the NULL pointer)
  stream,      \* contents of the FILE *fp
  color_type,  \* write: local color_type (a PNG colour type)
  row_size,    \* write: local row_size
  png,         \* png / png_ptr: "NULL", "live" or "destroyed"
  info,        \* read: what png_read_png left in the info struct
  rows,        \* write: the row table, one byte row per entry (<<>>: NULL)
  y,           \* write: the row allocation loop's counter
  palette,     \* write: the palette table given to png_set_PLTE
  plteSet,     \* write: png_set_PLTE has returned
  handoff,     \* write: png_write_png has been entered
  heap,        \* the buffers the calls allocated and have not released
  destroyed,   \* number of png_destroy_*_struct calls of the running call
  useAfter,    \* a codec call used the struct after it was destroyed
  oob,         \* some store of the running call fell outside its buffer
  result,      \* write: the result_t returned
  cause,       \* the call that failed and sent the running call to its error label
  out          \* read: the image_t * returned (null: NULL)

vars == <<pc, img, stream, color_type, row_size, png, info, rows, y, palette,
          plteSet, handoff, heap, destroyed, useAfter, oob, result, cause, out>>

(* ---- bounds of the model ---- *)
MaxWidth == 2
MaxHeight == 2

(* ---- constants of the program and of its libraries ---- *)
PaletteMax == 256

Seeds == {0, 250}
Uninit == 0 - 1

Byte(n) == n % 256

(* image_t colour models (image.h) and PNG colour types (png.h) *)
COLOR_TYPE_INDEX == "COLOR_TYPE_INDEX"
COLOR_TYPE_GRAY == "COLOR_TYPE_GRAY"
COLOR_TYPE_RGB == "COLOR_TYPE_RGB"
COLOR_TYPE_RGBA == "COLOR_TYPE_RGBA"
COLOR_TYPE_OTHER == "COLOR_TYPE_OTHER"
PNG_COLOR_TYPE_PALETTE == "PNG_COLOR_TYPE_PALETTE"
PNG_COLOR_TYPE_GRAY == "PNG_COLOR_TYPE_GRAY"
PNG_COLOR_TYPE_RGB == "PNG_COLOR_TYPE_RGB"
PNG_COLOR_TYPE_RGB_ALPHA == "PNG_COLOR_TYPE_RGB_ALPHA"
PNG_COLOR_TYPE_GRAY_ALPHA == "PNG_COLOR_TYPE_GRAY_ALPHA"

ColorTypes == {COLOR_TYPE_INDEX, COLOR_TYPE_GRAY, COLOR_TYPE_RGB, COLOR_TYPE_RGBA}

(* ---- image_t ---- *)

\* color_from_rgb: the palette entry made of a PNG (red, green, blue) triple
color_from_rgb(red, green, blue) == [r |-> red, g |-> green, b |-> blue]

\* a pixel of a colour model, as allocate_image leaves it: nothing stored yet
BlankCell(ct) ==
  CASE ct = COLOR_TYPE_INDEX -> [i |-> Uninit]
    [] ct = COLOR_TYPE_GRAY -> [g |-> Uninit]
    [] OTHER -> [r |-> Uninit, g |-> Uninit, b |-> Uninit, a |-> Uninit]

BlankColor == [r |-> Uninit, g |-> Uninit, b |-> Uninit]

\* allocate_image(width, height, type)
allocate_image(w, h, ct) ==
  [null |-> FALSE, color_type |-> ct, width |-> w, height |-> h,
   palette_num |-> 0,
   palette |-> [i \in 0..(PaletteMax - 1) |-> BlankColor],
   map |-> [yy \in 0..(h - 1) |-> [xx \in 0..(w - 1) |-> BlankCell(ct)]]]

NullImage ==
  [null |-> TRUE, color_type |-> COLOR_TYPE_OTHER, width |-> 0, height |-> 0,
   palette_num |-> 0, palette |-> <<>>, map |-> <<>>]

\* the images a caller passes to write_png_stream
CellOf(ct, seed, xx, yy) ==
  CASE ct = COLOR_TYPE_INDEX -> [i |-> Byte(seed + xx + 2 * yy)]
    [] ct = COLOR_TYPE_GRAY -> [g |-> Byte(seed + xx + 2 * yy)]
    [] OTHER -> [r |-> Byte(seed + 16 * yy + 4 * xx),
                 g |-> Byte(seed + 16 * yy + 4 * xx + 1),
                 b |-> Byte(seed + 16 * yy + 4 * xx + 2),
                 a |-> Byte(seed + 16 * yy + 4 * xx + 3)]

ColorOf(seed, i) ==
  color_from_rgb(Byte(seed + 3 * i + 255), Byte(seed + 3 * i + 1), Byte(seed + 3 * i + 2))

MkImage(ct, w, h, seed, pn) ==
  [null |-> FALSE, color_type |-> ct, width |-> w, height |-> h,
   palette_num |-> pn,
   palette |-> [i \in 0..(PaletteMax - 1) |->
                  IF ct = COLOR_TYPE_INDEX THEN ColorOf(seed, i) ELSE BlankColor],
   map |-> [yy \in 0..(h - 1) |-> [xx \in 0..(w - 1) |-> CellOf(ct, seed, xx, yy)]]]

PaletteNums == {1, 2, PaletteMax, PaletteMax + 1}

Images ==
  {MkImage(ct, w, h, seed, 0) :
     ct \in {COLOR_TYPE_GRAY, COLOR_TYPE_RGB, COLOR_TYPE_RGBA, COLOR_TYPE_OTHER},
     w \in 1..MaxWidth, h \in 1..MaxHeight, seed \in Seeds}
  \cup
  {MkImage(COLOR_TYPE_INDEX, w, h, seed, pn) :
     w \in 1..MaxWidth, h \in 1..MaxHeight, seed \in Seeds, pn \in PaletteNums}
  \cup {NullImage}

(* ---- the PNG stream, as libpng reads and writes it ---- *)

\* bytes per pixel of an 8-bit PNG row of a colour type
Channels(pct) ==
  CASE pct = PNG_COLOR_TYPE_PALETTE -> 1
    [] pct = PNG_COLOR_TYPE_GRAY -> 1
    [] pct = PNG_COLOR_TYPE_GRAY_ALPHA -> 2
    [] pct = PNG_COLOR_TYPE_RGB -> 3
    [] pct = PNG_COLOR_TYPE_RGB_ALPHA -> 4

PngColor(seed, i) ==
  [red |-> Byte(seed + 3 * i), green |-> Byte(seed + 3 * i + 1), blue |-> Byte(seed + 3 * i + 2)]

PngFile(pct, w, h, seed, np) ==
  [kind |-> "png", color_type |-> pct, width |-> w, height |-> h,
   num_palette |-> np,
   palette |-> [i \in 0..(np - 1) |-> PngColor(seed, i)],
   rows |-> [yy \in 0..(h - 1) |->
               [k \in 0..(w * Channels(pct) - 1) |-> Byte(seed + 5 * yy + k)]]]

NoFile(kind) ==
  [kind |-> kind, color_type |-> PNG_COLOR_TYPE_GRAY, width |-> 0, height |-> 0,
   num_palette |-> 0, palette |-> <<>>, rows |-> <<>>]

\* the streams a caller passes to read_png_stream: libpng delivers any bytes in
\* the rows, and a palette of 1..256 entries with a PALETTE image
Files ==
  {PngFile(pct, w, h, seed, 0) :
     pct \in {PNG_COLOR_TYPE_GRAY, PNG_COLOR_TYPE_GRAY_ALPHA, PNG_COLOR_TYPE_RGB,
              PNG_COLOR_TYPE_RGB_ALPHA},
     w \in 1..MaxWidth, h \in 1..MaxHeight, seed \in Seeds}
  \cup
  {PngFile(PNG_COLOR_TYPE_PALETTE, w, h, seed, np) :
     w \in 1..MaxWidth, h \in 1..MaxHeight, seed \in Seeds, np \in {1, 2, PaletteMax}}
  \cup {NoFile("empty"), NoFile("garbage")}

(* ---- write_png_stream: the pure parts ---- *)

\* the first switch: the colour models it has a case for
Supported(ct) == ct \in ColorTypes

\* the first switch: color_type
PngColorType(ct) ==
  CASE ct = COLOR_TYPE_INDEX -> PNG_COLOR_TYPE_PALETTE
    [] ct = COLOR_TYPE_GRAY -> PNG_COLOR_TYPE_GRAY
    [] ct = COLOR_TYPE_RGB -> PNG_COLOR_TYPE_RGB
    [] ct = COLOR_TYPE_RGBA -> PNG_COLOR_TYPE_RGB_ALPHA

\* RowSize with the RGB case sized as two bytes a pixel
RowSizeShort(ct, w) ==
  CASE ct = COLOR_TYPE_INDEX -> w
    [] ct = COLOR_TYPE_GRAY -> w
    [] ct = COLOR_TYPE_RGB -> w * 2
    [] ct = COLOR_TYPE_RGBA -> w * 4

\* the first switch: row_size
RowSize(ct, w) ==
  CASE ct = COLOR_TYPE_INDEX -> w
    [] ct = COLOR_TYPE_GRAY -> w
    [] ct = COLOR_TYPE_RGB -> w * 3
    [] ct = COLOR_TYPE_RGBA -> w * 4

\* a row as png_malloc returns it: row_size bytes, none of them initialised
FreshRow(n) == [k \in 0..(n - 1) |-> Uninit]
NullRow == [k \in {} |-> Uninit]

\* Stores with the colour channels stored in the order blue, green, red
StoresBGR(ct, cell, xx) ==
  CASE ct = COLOR_TYPE_INDEX -> {<<xx, cell.i>>}
    [] ct = COLOR_TYPE_GRAY -> {<<xx, cell.g>>}
    [] ct = COLOR_TYPE_RGB ->
         {<<xx * 3 + 0, cell.b>>, <<xx * 3 + 1, cell.g>>, <<xx * 3 + 2, cell.r>>}
    [] ct = COLOR_TYPE_RGBA ->
         {<<xx * 4 + 0, cell.b>>, <<xx * 4 + 1, cell.g>>, <<xx * 4 + 2, cell.r>>,
          <<xx * 4 + 3, cell.a>>}

\* the stores of one iteration of the inner loop of the second switch, as
\* <<byte position in rows[y], value>>
Stores(ct, cell, xx) ==
  CASE ct = COLOR_TYPE_INDEX -> {<<xx, cell.i>>}
    [] ct = COLOR_TYPE_GRAY -> {<<xx, cell.g>>}
    [] ct = COLOR_TYPE_RGB ->
         {<<xx * 3 + 0, cell.r>>, <<xx * 3 + 1, cell.g>>, <<xx * 3 + 2, cell.b>>}
    [] ct = COLOR_TYPE_RGBA ->
         {<<xx * 4 + 0, cell.r>>, <<xx * 4 + 1, cell.g>>, <<xx * 4 + 2, cell.b>>,
          <<xx * 4 + 3, cell.a>>}

\* the stores of the inner loop over x, for row yy
RowStores(image, yy) ==
  UNION {Stores(image.color_type, image.map[yy][xx], xx) : xx \in 0..(image.width - 1)}

\* a buffer after a set of stores; a store outside the buffer changes nothing in it
Fill(buf, stores) ==
  [k \in DOMAIN buf |->
     IF \E s \in stores : s[1] = k
       THEN (CHOOSE s \in stores : s[1] = k)[2]
       ELSE buf[k]]

Outside(buf, stores) == \E s \in stores : s[1] \notin DOMAIN buf

\* PopulateRows with the outer loop stopping one row early
PopulateRowsShort(image, rws) ==
  [yy \in 0..(image.height - 1) |->
     IF yy < image.height - 1 THEN Fill(rws[yy], RowStores(image, yy)) ELSE rws[yy]]

\* the outer loop over y of the second switch
PopulateRows(image, rws) ==
  [yy \in 0..(image.height - 1) |-> Fill(rws[yy], RowStores(image, yy))]

PopulateOutside(image, rws) ==
  \E yy \in 0..(image.height - 1) : Outside(rws[yy], RowStores(image, yy))

\* CopyPalette with red and blue exchanged
CopyPaletteSwapped(image, junk) ==
  [i \in 0..(image.palette_num - 1) |->
     IF i < PaletteMax
       THEN [red |-> image.palette[i].b, green |-> image.palette[i].g,
             blue |-> image.palette[i].r]
       ELSE junk]

\* the palette loop: palette[i] of img->palette[i], for i < palette_num; an entry
\* past the image's table is whatever lies behind it
CopyPalette(image, junk) ==
  [i \in 0..(image.palette_num - 1) |->
     IF i < PaletteMax
       THEN [red |-> image.palette[i].r, green |-> image.palette[i].g,
             blue |-> image.palette[i].b]
       ELSE junk]

JunkColors == {[red |-> 0, green |-> 0, blue |-> 0], [red |-> 255, green |-> 255, blue |-> 255]}

\* what png_write_png serialises: the IHDR, the PLTE and the rows it was given
WrittenFile ==
  [kind |-> "png", color_type |-> color_type, width |-> img.width, height |-> img.height,
   num_palette |-> IF plteSet THEN img.palette_num ELSE 0,
   palette |-> palette, rows |-> rows]

(* ---- read_png_stream: the pure parts ---- *)

\* the colour types the switch has a case for, and the model each allocates
Recognized(pct) ==
  pct \in {PNG_COLOR_TYPE_PALETTE, PNG_COLOR_TYPE_GRAY, PNG_COLOR_TYPE_RGB,
           PNG_COLOR_TYPE_RGB_ALPHA}

ImageColorType(pct) ==
  CASE pct = PNG_COLOR_TYPE_PALETTE -> COLOR_TYPE_INDEX
    [] pct = PNG_COLOR_TYPE_GRAY -> COLOR_TYPE_GRAY
    [] pct = PNG_COLOR_TYPE_RGB -> COLOR_TYPE_RGB
    [] pct = PNG_COLOR_TYPE_RGB_ALPHA -> COLOR_TYPE_RGBA

\* DecodeCell without the store of 0xff into the alpha of an RGB pixel
DecodeCellNoAlpha(pct, row, xx) ==
  CASE pct = PNG_COLOR_TYPE_PALETTE -> [i |-> row[xx]]
    [] pct = PNG_COLOR_TYPE_GRAY -> [g |-> row[xx]]
    [] pct = PNG_COLOR_TYPE_RGB ->
         [r |-> row[xx * 3 + 0], g |-> row[xx * 3 + 1], b |-> row[xx * 3 + 2],
          a |-> Uninit]
    [] pct = PNG_COLOR_TYPE_RGB_ALPHA ->
         [r |-> row[xx * 4 + 0], g |-> row[xx * 4 + 1], b |-> row[xx * 4 + 2],
          a |-> row[xx * 4 + 3]]

\* the body of the inner loop: the pixel stored at map[y][x]
DecodeCell(pct, row, xx) ==
  CASE pct = PNG_COLOR_TYPE_PALETTE -> [i |-> row[xx]]
    [] pct = PNG_COLOR_TYPE_GRAY -> [g |-> row[xx]]
    [] pct = PNG_COLOR_TYPE_RGB ->
         [r |-> row[xx * 3 + 0], g |-> row[xx * 3 + 1], b |-> row[xx * 3 + 2], a |-> 255]
    [] pct = PNG_COLOR_TYPE_RGB_ALPHA ->
         [r |-> row[xx * 4 + 0], g |-> row[xx * 4 + 1], b |-> row[xx * 4 + 2],
          a |-> row[xx * 4 + 3]]

\* Visited with the inner loop stopping one pixel early
VisitedShort(inf) == (0..(inf.height - 1)) \X (0..(inf.width - 2))

\* the pixels the two loops visit
Visited(inf) == (0..(inf.height - 1)) \X (0..(inf.width - 1))

DecodeMap(inf, blank) ==
  [yy \in DOMAIN blank |->
     [xx \in DOMAIN blank[yy] |->
        IF <<yy, xx>> \in Visited(inf)
          THEN DecodeCell(inf.color_type, inf.rows[yy], xx)
          ELSE blank[yy][xx]]]

\* the palette loop: the stores into img->palette, as <<slot, colour>>
PaletteStores(inf) ==
  {<<i, color_from_rgb(inf.palette[i].red, inf.palette[i].green, inf.palette[i].blue)>> :
     i \in 0..(inf.num_palette - 1)}

\* one case of the switch, after allocate_image succeeded
Decode(inf) ==
  LET blank == allocate_image(inf.width, inf.height, ImageColorType(inf.color_type))
  IN  IF inf.color_type = PNG_COLOR_TYPE_PALETTE
        THEN [blank EXCEPT !.palette_num = inf.num_palette,
                           !.palette = Fill(blank.palette, PaletteStores(inf)),
                           !.map = DecodeMap(inf, blank.map)]
        ELSE [blank EXCEPT !.map = DecodeMap(inf, blank.map)]

DecodeOutside(inf) ==
  /\ inf.color_type = PNG_COLOR_TYPE_PALETTE
  /\ Outside(allocate_image(inf.width, inf.height, COLOR_TYPE_INDEX).palette,
             PaletteStores(inf))

(* ---- the state machine ---- *)

Init ==
  /\ pc = "idle"
  /\ \/ stream \in Files /\ img = NullImage
     \/ stream = NoFile("empty") /\ img \in Images
  /\ color_type = PNG_COLOR_TYPE_GRAY
  /\ row_size = 0
  /\ png = "NULL"
  /\ info = NoFile("empty")
  /\ rows = <<>>
  /\ y = 0
  /\ palette = <<>>
  /\ plteSet = FALSE
  /\ handoff = FALSE
  /\ heap = {}
  /\ destroyed = 0
  /\ useAfter = FALSE
  /\ oob = FALSE
  /\ result = "none"
  /\ cause = "none"
  /\ out = NullImage

\* png_destroy_write_struct / png_destroy_read_struct: releases the struct and the
\* info struct when there is one; the row table and the rows that png_set_rows
\* was given stay the caller's
Destroy ==
  /\ png' = IF png = "NULL" THEN "NULL" ELSE "destroyed"
  /\ destroyed' = destroyed + 1
  /\ heap' = heap \ {<<"png", 0>>, <<"info", 0>>}

\* a libpng call on the struct
UseStruct == useAfter' = (useAfter \/ png = "destroyed")

(* ---- write_png_stream ---- *)

\* if (img == NULL) return result;
WriteNull ==
  /\ pc = "idle"
  /\ img.null
  /\ result' = "FAILURE"
  /\ pc' = "w_return"
  /\ UNCHANGED <<img, cause, stream, color_type, row_size, png, info, rows, y, palette,
                 plteSet, handoff, heap, destroyed, useAfter, oob, out>>

\* WriteUnsupported leaving through the error label instead of returning
WriteUnsupportedGoto ==
  /\ pc = "idle"
  /\ ~img.null
  /\ ~Supported(img.color_type)
  /\ pc' = "w_error"
  /\ UNCHANGED <<img, cause, stream, color_type, row_size, png, info, rows, y, palette,
                 plteSet, handoff, heap, destroyed, useAfter, oob, result, out>>

\* switch (img->color_type) ... default: return FAILURE;
WriteUnsupported ==
  /\ pc = "idle"
  /\ ~img.null
  /\ ~Supported(img.color_type)
  /\ result' = "FAILURE"
  /\ pc' = "w_return"
  /\ UNCHANGED <<img, cause, stream, color_type, row_size, png, info, rows, y, palette,
                 plteSet, handoff, heap, destroyed, useAfter, oob, out>>

\* switch (img->color_type): color_type and row_size of the four cases
WriteDispatch ==
  /\ pc = "idle"
  /\ ~img.null
  /\ Supported(img.color_type)
  /\ color_type' = PngColorType(img.color_type)
  /\ row_size' = RowSize(img.color_type, img.width)
  /\ pc' = "w_create"
  /\ UNCHANGED <<img, cause, stream, png, info, rows, y, palette, plteSet, handoff, heap,
                 destroyed, useAfter, oob, result, out>>

\* png_ptr = png_create_write_struct(...)
WriteCreateStruct ==
  /\ pc = "w_create"
  /\ png' = "live"
  /\ heap' = heap \cup {<<"png", 0>>}
  /\ pc' = "w_info"
  /\ UNCHANGED <<img, cause, stream, color_type, row_size, info, rows, y, palette, plteSet,
                 handoff, destroyed, useAfter, oob, result, out>>

\* if (png_ptr == NULL) goto error;
WriteCreateStructFail ==
  /\ pc = "w_create"
  /\ pc' = "w_error"
  /\ cause' = "png_create_write_struct"
  /\ UNCHANGED <<img, stream, color_type, row_size, png, info, rows, y, palette,
                 plteSet, handoff, heap, destroyed, useAfter, oob, result, out>>

\* info_ptr = png_create_info_struct(png_ptr)
WriteCreateInfo ==
  /\ pc = "w_info"
  /\ UseStruct
  /\ heap' = heap \cup {<<"info", 0>>}
  /\ pc' = "w_ihdr"
  /\ UNCHANGED <<img, cause, stream, color_type, row_size, png, info, rows, y, palette,
                 plteSet, handoff, destroyed, oob, result, out>>

\* if (info_ptr == NULL) goto error;
WriteCreateInfoFail ==
  /\ pc = "w_info"
  /\ UseStruct
  /\ pc' = "w_error"
  /\ cause' = "png_create_info_struct"
  /\ UNCHANGED <<img, stream, color_type, row_size, png, info, rows, y, palette,
                 plteSet, handoff, heap, destroyed, oob, result, out>>

\* setjmp; png_init_io; png_set_IHDR
WriteSetIHDR ==
  /\ pc = "w_ihdr"
  /\ UseStruct
  /\ pc' = "w_table"
  /\ UNCHANGED <<img, cause, stream, color_type, row_size, png, info, rows, y, palette,
                 plteSet, handoff, heap, destroyed, oob, result, out>>

\* png_set_IHDR raises a libpng error: if (setjmp(...)) goto error;
WriteSetIHDRFail ==
  /\ pc = "w_ihdr"
  /\ UseStruct
  /\ pc' = "w_error"
  /\ cause' = "png_set_IHDR"
  /\ UNCHANGED <<img, stream, color_type, row_size, png, info, rows, y, palette,
                 plteSet, handoff, heap, destroyed, oob, result, out>>

\* rows = png_malloc(...); png_set_rows; memset(rows, 0, ...)
WriteAllocTable ==
  /\ pc = "w_table"
  /\ UseStruct
  /\ rows' = [yy \in 0..(img.height - 1) |-> NullRow]
  /\ heap' = heap \cup {<<"rows", 0>>}
  /\ y' = 0
  /\ pc' = "w_rows"
  /\ UNCHANGED <<img, cause, stream, color_type, row_size, png, info, palette, plteSet,
                 handoff, destroyed, oob, result, out>>

\* the row table cannot be allocated: goto error
WriteAllocTableFail ==
  /\ pc = "w_table"
  /\ UseStruct
  /\ pc' = "w_error"
  /\ cause' = "rows"
  /\ UNCHANGED <<img, stream, color_type, row_size, png, info, rows, y, palette,
                 plteSet, handoff, heap, destroyed, oob, result, out>>

\* for (y = 0; y < img->height; y++) rows[y] = png_malloc(png_ptr, row_size)
WriteAllocRow ==
  /\ pc = "w_rows"
  /\ y < img.height
  /\ UseStruct
  /\ rows' = [rows EXCEPT ![y] = FreshRow(row_size)]
  /\ heap' = heap \cup {<<"row", y>>}
  /\ y' = y + 1
  /\ UNCHANGED <<pc, img, cause, stream, color_type, row_size, png, info, palette, plteSet,
                 handoff, destroyed, oob, result, out>>

\* row y cannot be allocated: goto error
WriteAllocRowFail ==
  /\ pc = "w_rows"
  /\ y < img.height
  /\ UseStruct
  /\ pc' = "w_error"
  /\ cause' = "rows[y]"
  /\ UNCHANGED <<img, stream, color_type, row_size, png, info, rows, y, palette,
                 plteSet, handoff, heap, destroyed, oob, result, out>>

\* case COLOR_TYPE_INDEX: the palette cannot be allocated
WritePaletteAllocFail ==
  /\ pc = "w_rows"
  /\ y = img.height
  /\ img.color_type = COLOR_TYPE_INDEX
  /\ UseStruct
  /\ pc' = "w_error"
  /\ cause' = "palette"
  /\ UNCHANGED <<img, stream, color_type, row_size, png, info, rows, y, palette,
                 plteSet, handoff, heap, destroyed, oob, result, out>>

\* case COLOR_TYPE_INDEX: png_set_PLTE raises a libpng error, as it does for
\* more than 256 entries; the palette buffer is not freed on this path
WriteSetPLTEFail ==
  /\ pc = "w_rows"
  /\ y = img.height
  /\ img.color_type = COLOR_TYPE_INDEX
  /\ UseStruct
  /\ \E junk \in JunkColors : palette' = CopyPalette(img, junk)
  /\ heap' = heap \cup {<<"palette", 0>>}
  /\ pc' = "w_error"
  /\ cause' = "png_set_PLTE"
  /\ UNCHANGED <<img, stream, color_type, row_size, png, info, rows, y, plteSet,
                 handoff, destroyed, oob, result, out>>

\* case COLOR_TYPE_INDEX: palette copy, png_set_PLTE, png_free, index bytes
WritePopulateIndex ==
  /\ pc = "w_rows"
  /\ y = img.height
  /\ img.color_type = COLOR_TYPE_INDEX
  /\ img.palette_num <= PaletteMax
  /\ UseStruct
  /\ \E junk \in JunkColors : palette' = CopyPalette(img, junk)
  /\ plteSet' = TRUE
  /\ rows' = PopulateRows(img, rows)
  /\ oob' = (oob \/ PopulateOutside(img, rows))
  /\ pc' = "w_write"
  /\ UNCHANGED <<img, cause, stream, color_type, row_size, png, info, y, handoff, heap,
                 destroyed, result, out>>

\* case COLOR_TYPE_GRAY, COLOR_TYPE_RGB, COLOR_TYPE_RGBA
WritePopulate ==
  /\ pc = "w_rows"
  /\ y = img.height
  /\ img.color_type # COLOR_TYPE_INDEX
  /\ rows' = PopulateRows(img, rows)
  /\ oob' = (oob \/ PopulateOutside(img, rows))
  /\ pc' = "w_write"
  /\ UNCHANGED <<img, cause, stream, color_type, row_size, png, info, y, palette, plteSet,
                 handoff, heap, destroyed, useAfter, result, out>>

\* WriteHandoff without the return, so that control falls into the error label
WriteHandoffFallthrough ==
  /\ pc = "w_write"
  /\ UseStruct
  /\ handoff' = TRUE
  /\ stream' = WrittenFile
  /\ result' = "SUCCESS"
  /\ Destroy
  /\ pc' = "w_error"
  /\ UNCHANGED <<img, cause, color_type, row_size, info, rows, y, palette, plteSet, oob, out>>

\* png_write_png; result = SUCCESS; png_destroy_write_struct; return result;
WriteHandoff ==
  /\ pc = "w_write"
  /\ UseStruct
  /\ handoff' = TRUE
  /\ stream' = WrittenFile
  /\ result' = "SUCCESS"
  /\ Destroy
  /\ pc' = "w_return"
  /\ UNCHANGED <<img, cause, color_type, row_size, info, rows, y, palette, plteSet, oob, out>>

\* png_write_png raises a libpng error part way through
WriteHandoffFail ==
  /\ pc = "w_write"
  /\ UseStruct
  /\ handoff' = TRUE
  /\ stream' = NoFile("truncated")
  /\ pc' = "w_error"
  /\ cause' = "png_write_png"
  /\ UNCHANGED <<img, color_type, row_size, png, info, rows, y, palette, plteSet,
                 heap, destroyed, oob, result, out>>

\* error: png_destroy_write_struct; return FAILURE;
WriteError ==
  /\ pc = "w_error"
  /\ Destroy
  /\ result' = "FAILURE"
  /\ pc' = "w_return"
  /\ UNCHANGED <<img, cause, stream, color_type, row_size, info, rows, y, palette, plteSet,
                 handoff, useAfter, oob, out>>

(* ---- read_png_stream ---- *)

\* a call of read_png_stream starts: first of all, or on the stream of the write
\* that has returned
ReadCallable == pc = "idle" \/ pc = "w_return"

\* fread / png_sig_cmp: return NULL;
ReadBadSignature ==
  /\ ReadCallable
  /\ stream.kind \in {"empty", "garbage"}
  /\ out' = NullImage
  /\ png' = "NULL"
  /\ destroyed' = 0
  /\ useAfter' = FALSE
  /\ oob' = FALSE
  /\ pc' = "r_return"
  /\ cause' = "none"
  /\ UNCHANGED <<img, stream, color_type, row_size, info, rows, y, palette, plteSet,
                 handoff, heap, result>>

\* the signature is a PNG's
ReadSignature ==
  /\ ReadCallable
  /\ stream.kind \in {"png", "truncated"}
  /\ out' = NullImage
  /\ png' = "NULL"
  /\ destroyed' = 0
  /\ useAfter' = FALSE
  /\ oob' = FALSE
  /\ pc' = "r_create"
  /\ cause' = "none"
  /\ UNCHANGED <<img, stream, color_type, row_size, info, rows, y, palette, plteSet,
                 handoff, heap, result>>

\* png = png_create_read_struct(...)
ReadCreateStruct ==
  /\ pc = "r_create"
  /\ png' = "live"
  /\ heap' = heap \cup {<<"png", 0>>}
  /\ pc' = "r_info"
  /\ UNCHANGED <<img, cause, stream, color_type, row_size, info, rows, y, palette, plteSet,
                 handoff, destroyed, useAfter, oob, result, out>>

\* if (png == NULL) goto error;
ReadCreateStructFail ==
  /\ pc = "r_create"
  /\ pc' = "r_error"
  /\ cause' = "png_create_read_struct"
  /\ UNCHANGED <<img, stream, color_type, row_size, png, info, rows, y, palette,
                 plteSet, handoff, heap, destroyed, useAfter, oob, result, out>>

\* info = png_create_info_struct(png)
ReadCreateInfo ==
  /\ pc = "r_info"
  /\ UseStruct
  /\ heap' = heap \cup {<<"info", 0>>}
  /\ pc' = "r_read"
  /\ UNCHANGED <<img, cause, stream, color_type, row_size, png, info, rows, y, palette,
                 plteSet, handoff, destroyed, oob, result, out>>

\* if (info == NULL) goto error;
ReadCreateInfoFail ==
  /\ pc = "r_info"
  /\ UseStruct
  /\ pc' = "r_error"
  /\ cause' = "png_create_info_struct"
  /\ UNCHANGED <<img, stream, color_type, row_size, png, info, rows, y, palette,
                 plteSet, handoff, heap, destroyed, oob, result, out>>

\* setjmp; png_init_io; png_set_sig_bytes; png_read_png; png_get_rows
ReadPng ==
  /\ pc = "r_read"
  /\ stream.kind = "png"
  /\ UseStruct
  /\ info' = stream
  /\ pc' = "r_switch"
  /\ UNCHANGED <<img, cause, stream, color_type, row_size, png, rows, y, palette, plteSet,
                 handoff, heap, destroyed, oob, result, out>>

\* png_read_png raises a libpng error: if (setjmp(...)) goto error;
ReadPngFail ==
  /\ pc = "r_read"
  /\ UseStruct
  /\ pc' = "r_error"
  /\ cause' = "png_read_png"
  /\ UNCHANGED <<img, stream, color_type, row_size, png, info, rows, y, palette,
                 plteSet, handoff, heap, destroyed, oob, result, out>>

\* a case of the switch: allocate_image, then the loops
ReadDecode ==
  /\ pc = "r_switch"
  /\ Recognized(info.color_type)
  /\ out' = Decode(info)
  /\ oob' = (oob \/ DecodeOutside(info))
  /\ heap' = heap \cup {<<"image", 0>>}
  /\ pc' = "r_error"
  /\ UNCHANGED <<img, cause, stream, color_type, row_size, png, info, rows, y, palette,
                 plteSet, handoff, destroyed, useAfter, result>>

\* a case of the switch: allocate_image returns NULL, goto error
ReadAllocFail ==
  /\ pc = "r_switch"
  /\ Recognized(info.color_type)
  /\ pc' = "r_error"
  /\ cause' = "allocate_image"
  /\ UNCHANGED <<img, stream, color_type, row_size, png, info, rows, y, palette,
                 plteSet, handoff, heap, destroyed, useAfter, oob, result, out>>

\* no case of the switch matches: control falls to the label
ReadUnrecognized ==
  /\ pc = "r_switch"
  /\ ~Recognized(info.color_type)
  /\ pc' = "r_error"
  /\ UNCHANGED <<img, cause, stream, color_type, row_size, png, info, rows, y, palette,
                 plteSet, handoff, heap, destroyed, useAfter, oob, result, out>>

\* error: png_destroy_read_struct; return img;
ReadReturn ==
  /\ pc = "r_error"
  /\ Destroy
  /\ pc' = "r_return"
  /\ UNCHANGED <<img, cause, stream, color_type, row_size, info, rows, y, palette, plteSet,
                 handoff, useAfter, oob, result, out>>

Next ==
  \/ WriteNull \/ WriteUnsupported \/ WriteDispatch
  \/ WriteCreateStruct \/ WriteCreateStructFail
  \/ WriteCreateInfo \/ WriteCreateInfoFail
  \/ WriteSetIHDR \/ WriteSetIHDRFail
  \/ WriteAllocTable \/ WriteAllocTableFail
  \/ WriteAllocRow \/ WriteAllocRowFail
  \/ WritePaletteAllocFail \/ WriteSetPLTEFail \/ WritePopulateIndex \/ WritePopulate
  \/ WriteHandoff \/ WriteHandoffFail \/ WriteError
  \/ ReadBadSignature \/ ReadSignature
  \/ ReadCreateStruct \/ ReadCreateStructFail
  \/ ReadCreateInfo \/ ReadCreateInfoFail
  \/ ReadPng \/ ReadPngFail
  \/ ReadDecode \/ ReadAllocFail \/ ReadUnrecognized
  \/ ReadReturn

Spec == Init /\ [][Next]_vars

(* ---- the properties ---- *)

\* bytes per pixel of the packed row of a colour model
Stride(ct) ==
  CASE ct = COLOR_TYPE_INDEX -> 1
    [] ct = COLOR_TYPE_GRAY -> 1
    [] ct = COLOR_TYPE_RGB -> 3
    [] ct = COLOR_TYPE_RGBA -> 4

InWrite == pc \in {"w_create", "w_info", "w_ihdr", "w_table", "w_rows", "w_write",
                   "w_error", "w_return"}

ValidImage(im) ==
  /\ ~im.null
  /\ im.color_type \in ColorTypes
  /\ im.width > 0
  /\ im.height > 0
  /\ im.color_type = COLOR_TYPE_INDEX => im.palette_num <= 256

SameCell(ct, a, b) ==
  CASE ct = COLOR_TYPE_INDEX -> a.i = b.i
    [] ct = COLOR_TYPE_GRAY -> a.g = b.g
    [] ct = COLOR_TYPE_RGB -> a.r = b.r /\ a.g = b.g /\ a.b = b.b /\ b.a = 255
    [] ct = COLOR_TYPE_RGBA -> a.r = b.r /\ a.g = b.g /\ a.b = b.b /\ a.a = b.a

SameImage(a, b) ==
  /\ b.width = a.width
  /\ b.height = a.height
  /\ b.color_type = a.color_type
  /\ b.palette_num = a.palette_num
  /\ \A i \in 0..(a.palette_num - 1) : b.palette[i] = a.palette[i]
  /\ \A yy \in 0..(a.height - 1) : \A xx \in 0..(a.width - 1) :
       SameCell(a.color_type, a.map[yy][xx], b.map[yy][xx])

\* C1: the image read back from the stream that a successful write of a valid
\* image produced equals that image: in width, height, colour model, palette_num,
\* the palette entries and every pixel; for RGB on (r,g,b), with alpha read as 255.
RoundTrip ==
  (pc = "r_return" /\ result = "SUCCESS" /\ ValidImage(img) /\ ~out.null)
    => SameImage(img, out)

RoundTripWitness ==
  /\ pc = "r_return"
  /\ result = "SUCCESS"
  /\ ~out.null
  /\ img.color_type = COLOR_TYPE_RGB
  /\ img.width = 2
  /\ img.height = 2
  /\ img.map[1][1].a # 255

\* C2: every row that write_png_stream allocated has exactly width * stride bytes,
\* stride 1 for Index and Gray, 3 for RGB, 4 for RGBA, and no store of the
\* populate loops falls outside its row.
StrideInvariant ==
  InWrite =>
    /\ ~oob
    /\ \A yy \in DOMAIN rows :
         \/ yy >= y /\ rows[yy] = NullRow
         \/ yy < y /\ DOMAIN rows[yy] = 0..(img.width * Stride(img.color_type) - 1)

StrideWitness ==
  /\ pc = "w_write"
  /\ img.color_type = COLOR_TYPE_RGB
  /\ img.width = 2
  /\ y = 2
  /\ DOMAIN rows[1] = 0..5

\* C3: when an Index image is written successfully, the palette handed to the
\* codec has exactly palette_num <= 256 entries, entry i is the (r,g,b) of the
\* image's palette entry i, and byte x of row y is the index stored at (x,y).
PaletteBound ==
  (result = "SUCCESS" /\ img.color_type = COLOR_TYPE_INDEX) =>
    /\ img.palette_num <= 256
    /\ stream.num_palette = img.palette_num
    /\ DOMAIN stream.palette = 0..(img.palette_num - 1)
    /\ \A i \in 0..(img.palette_num - 1) :
         /\ stream.palette[i].red = img.palette[i].r
         /\ stream.palette[i].green = img.palette[i].g
         /\ stream.palette[i].blue = img.palette[i].b
    /\ \A yy \in 0..(img.height - 1) : \A xx \in 0..(img.width - 1) :
         stream.rows[yy][xx] = img.map[yy][xx].i

PaletteBoundWitness ==
  /\ pc = "w_return"
  /\ result = "SUCCESS"
  /\ img.color_type = COLOR_TYPE_INDEX
  /\ img.palette_num = 256
  /\ img.width = 2
  /\ stream.palette[255].red # stream.palette[255].blue

\* C4: reading an RGB row stores bytes 3x, 3x+1, 3x+2 of row y as (r,g,b) of pixel
\* (x,y) and 255 as its alpha; writing an RGB image stores (r,g,b) of pixel (x,y)
\* at 3x..3x+2 of row y, and the row holds nothing else.
RGBLayout ==
  /\ (pc \in {"r_error", "r_return"} /\ ~out.null /\ info.color_type = PNG_COLOR_TYPE_RGB) =>
       \A yy \in 0..(info.height - 1) : \A xx \in 0..(info.width - 1) :
         out.map[yy][xx] = [r |-> info.rows[yy][3 * xx], g |-> info.rows[yy][3 * xx + 1],
                            b |-> info.rows[yy][3 * xx + 2], a |-> 255]
  /\ (pc = "w_write" /\ img.color_type = COLOR_TYPE_RGB) =>
       \A yy \in 0..(img.height - 1) :
         /\ DOMAIN rows[yy] = 0..(3 * img.width - 1)
         /\ \A xx \in 0..(img.width - 1) :
              /\ rows[yy][3 * xx] = img.map[yy][xx].r
              /\ rows[yy][3 * xx + 1] = img.map[yy][xx].g
              /\ rows[yy][3 * xx + 2] = img.map[yy][xx].b

RGBLayoutWitness ==
  /\ pc = "r_return"
  /\ result = "SUCCESS"
  /\ ~out.null
  /\ img.color_type = COLOR_TYPE_RGB
  /\ info.color_type = PNG_COLOR_TYPE_RGB
  /\ img.width = 1
  /\ img.height = 1
  /\ img.map[0][0].a # 255
  /\ out.map[0][0].a = 255
  /\ info.rows[0] = (0 :> img.map[0][0].r) @@ (1 :> img.map[0][0].g) @@ (2 :> img.map[0][0].b)

\* C5: every Index image that read_png_stream returns has every stored index
\* below palette_num, palette_num <= 256, and its palette written only in slots
\* 0..palette_num-1 of the 256-entry table.
IndexBelowPaletteNum ==
  (pc = "r_return" /\ ~out.null /\ out.color_type = COLOR_TYPE_INDEX) =>
    /\ out.palette_num <= 256
    /\ ~oob
    /\ \A i \in 0..255 : i >= out.palette_num => out.palette[i] = BlankColor
    /\ \A yy \in 0..(out.height - 1) : \A xx \in 0..(out.width - 1) :
         out.map[yy][xx].i < out.palette_num

\* C6: write_png_stream of a NULL image, or of an image whose colour model is none
\* of the four, returns FAILURE at once: its only step is the return, which
\* creates and destroys no codec struct, allocates no buffer and leaves the
\* stream as it was.
UnsupportedFails ==
  [][(pc = "idle" /\ InWrite' /\ (img.null \/ img.color_type \notin ColorTypes)) =>
       /\ pc' = "w_return"
       /\ result' = "FAILURE"
       /\ png' = "NULL"
       /\ destroyed' = 0
       /\ heap' = {}
       /\ rows' = <<>>
       /\ ~handoff'
       /\ stream' = stream]_vars

UnsupportedFailsWitness ==
  /\ pc = "w_return"
  /\ ~img.null
  /\ img.color_type = COLOR_TYPE_OTHER
  /\ result = "FAILURE"

\* C7: when the row table or a row cannot be allocated, write_png_stream returns
\* FAILURE and no buffer the call allocated is still allocated.
NoLeakOnAllocFailure ==
  (pc = "w_return" /\ cause \in {"rows", "rows[y]"}) =>
    /\ result = "FAILURE"
    /\ heap = {}

AllRowsPopulated ==
  /\ y = img.height
  /\ \A yy \in 0..(img.height - 1) :
       /\ DOMAIN rows[yy] = 0..(img.width * Stride(img.color_type) - 1)
       /\ \A k \in DOMAIN rows[yy] : rows[yy][k] # Uninit
  /\ img.color_type = COLOR_TYPE_INDEX => plteSet

\* C8, as claimed: png_write_png is entered only with every row allocated and
\* every byte of it written, and the palette set for Index; a call that returns
\* FAILURE never entered png_write_png, and one that returns SUCCESS did.
HandoffOnlyOnSuccess ==
  InWrite =>
    /\ handoff => AllRowsPopulated
    /\ (pc = "w_return" /\ result = "FAILURE") => ~handoff
    /\ (pc = "w_return" /\ result = "SUCCESS") => handoff

\* C8, amended: png_write_png is entered only with every row allocated and every
\* byte of it written, and the palette set for Index; a call that returns FAILURE
\* either never entered png_write_png or png_write_png itself raised the error,
\* and one that returns SUCCESS did enter it.
HandoffAfterPopulate ==
  InWrite =>
    /\ handoff => AllRowsPopulated
    /\ (pc = "w_return" /\ result = "FAILURE") => (~handoff \/ cause = "png_write_png")
    /\ (pc = "w_return" /\ result = "SUCCESS") => (handoff /\ cause = "none")
    /\ (pc = "w_return" /\ cause \notin {"none", "png_write_png"}) => ~handoff

HandoffWitness ==
  /\ pc = "w_return"
  /\ result = "FAILURE"
  /\ handoff
  /\ cause = "png_write_png"
  /\ img.color_type = COLOR_TYPE_INDEX

FullyRead(im) ==
  /\ \A yy \in 0..(im.height - 1) : \A xx \in 0..(im.width - 1) :
       \A f \in DOMAIN im.map[yy][xx] : im.map[yy][xx][f] # Uninit
  /\ \A i \in 0..(im.palette_num - 1) :
       \A f \in DOMAIN im.palette[i] : im.palette[i][f] # Uninit

\* C9: an image that read_png_stream returns has the colour model of the source's
\* colour type, the source's width, height and palette size, and every pixel and
\* palette entry written from the input; when allocate_image fails, libpng raises
\* an error or the colour type is none of the four, it returns NULL.
NoPartialImage ==
  pc = "r_return" =>
    /\ ~out.null =>
         /\ info.color_type = PNG_COLOR_TYPE_PALETTE => out.color_type = COLOR_TYPE_INDEX
         /\ info.color_type = PNG_COLOR_TYPE_GRAY => out.color_type = COLOR_TYPE_GRAY
         /\ info.color_type = PNG_COLOR_TYPE_RGB => out.color_type = COLOR_TYPE_RGB
         /\ info.color_type = PNG_COLOR_TYPE_RGB_ALPHA => out.color_type = COLOR_TYPE_RGBA
         /\ out.width = info.width
         /\ out.height = info.height
         /\ out.color_type = COLOR_TYPE_INDEX => out.palette_num = info.num_palette
         /\ FullyRead(out)
    /\ cause # "none" => out.null
    /\ info.color_type = PNG_COLOR_TYPE_GRAY_ALPHA => out.null

NoPartialImageWitness ==
  /\ pc = "r_return"
  /\ ~out.null
  /\ out.color_type = COLOR_TYPE_INDEX
  /\ out.width = 2
  /\ out.height = 2
  /\ out.palette_num = 2

\* C10: a call that got as far as creating the codec struct has called
\* png_destroy_*_struct exactly once when it returns, and no libpng call used the
\* struct after that; a call that returned before (bad signature, NULL image,
\* unsupported colour model) has not called it.
DestroyedOnce ==
  /\ pc = "w_return" =>
       /\ destroyed = (IF img.null \/ img.color_type \notin ColorTypes THEN 0 ELSE 1)
       /\ png # "live"
       /\ ~useAfter
  /\ pc = "r_return" =>
       /\ destroyed = (IF stream.kind \in {"empty", "garbage"} THEN 0 ELSE 1)
       /\ png # "live"
       /\ ~useAfter

DestroyedOnceWitness ==
  /\ pc = "w_return"
  /\ cause = "png_set_PLTE"
  /\ destroyed = 1
  /\ png = "destroyed"

====
